---- MODULE Spec2Model ----
(***************************************************************************)
(* pcurate: a sqlite table of Arch Linux packages (name, curated, tag,     *)
(* description, native), rebuilt from pacman's listings (repopulate),      *)
(* trimmed by a filter file (filter) and queried (output, missing,         *)
(* display).                                                               *)
(*                                                                         *)
(* Strings that the code splits, joins or orders (package names, pacman's  *)
(* output, the filter file) are sequences of character codes.  A Python or *)
(* SQL value is None (NULL) or a one-element tuple <<v>>.  A row of the    *)
(* table is the tuple sqlite returns for it,                               *)
(*   <<name, curated, tag, description, native>>,                          *)
(* and the table is the sequence of its rows in rowid (insertion) order.   *)
(***************************************************************************)
EXTENDS Integers, Sequences, FiniteSets, TLC

VARIABLES
    packages,   \* the rows of the packages table, as the open connection sees them
    prev,       \* the table before the call that just returned
    op,         \* the call that just returned ("idle": none)
    arg,        \* what it was called with, and what pacman answered it
    ret,        \* what it returned, or that it raised
    pc,         \* "call": the caller is about to call; "ret": a call has returned;
                \* in an invocation of pcurate, the step it is at
    committed,  \* the rows of the table in the database file
    conn,       \* the connection to the database file: "closed", "open"
    cli,        \* the parsed command line of the invocation under way
    unset,      \* the name whose curated row the invocation before unset, if any
    columns,    \* the number of columns of the packages table in the file (0: no table)
    user_version    \* PRAGMA user_version of the file

vars == <<packages, prev, op, arg, ret, pc, committed, conn, cli, unset,
          columns, user_version>>

-----------------------------------------------------------------------------
(* Bounds of the model *)

\* longest pacman -Qei listing (entries)
MaxListing == 2
\* most lines in a filter file
MaxFilter == 2
\* cap on the number of rows of the table
MaxRows == 3
\* most rows in a database file an earlier run left
MaxStored == 2
\* highest user_version an earlier run left
MaxVersion == 2

-----------------------------------------------------------------------------
(* Values and strings *)

NL == 10
SP == 32

None == <<>>
Val(v) == <<v>>

\* package names: "ab" and "b"
PkgNames == {<<97, 98>>, <<98>>}
Tags == {"", "test_tag"}
Descs == {"descA", "descB"}

\* str.replace(a, b) for single characters
Replace(s, a, b) == [i \in 1..Len(s) |-> IF s[i] = a THEN b ELSE s[i]]

RECURSIVE SplitFrom(_, _, _, _, _)
SplitFrom(s, sep, i, cur, acc) ==
    IF i > Len(s) THEN Append(acc, cur)
    ELSE IF s[i] = sep THEN SplitFrom(s, sep, i + 1, <<>>, Append(acc, cur))
    ELSE SplitFrom(s, sep, i + 1, Append(cur, s[i]), acc)

\* str.split(sep) for a single-character separator: "" gives [""]
Split(s, sep) == SplitFrom(s, sep, 1, <<>>, <<>>)

RECURSIVE Concat(_)
\* the concatenation of a sequence of strings
Concat(ss) == IF ss = <<>> THEN <<>> ELSE Head(ss) \o Concat(Tail(ss))

RECURSIVE JoinLines(_)
\* lines joined by newlines, no trailing newline (getstatusoutput strips it)
JoinLines(ss) ==
    IF ss = <<>> THEN <<>>
    ELSE IF Len(ss) = 1 THEN ss[1]
    ELSE ss[1] \o <<NL>> \o JoinLines(Tail(ss))

RECURSIVE StrLessFrom(_, _, _)
StrLessFrom(a, b, i) ==
    IF i > Len(a) THEN i <= Len(b)
    ELSE IF i > Len(b) THEN FALSE
    ELSE IF a[i] # b[i] THEN a[i] < b[i]
    ELSE StrLessFrom(a, b, i + 1)

\* sqlite's BINARY collation: byte by byte, a proper prefix first
StrLess(a, b) == StrLessFrom(a, b, 1)

Range(s) == {s[i] : i \in 1..Len(s)}

\* all sequences over S of length at most n
SeqsUpTo(S, n) == UNION {[1..k -> S] : k \in 0..n}

RECURSIVE SetToSortedSeq(_)
\* the names of a set in ascending order, as pacman lists them
SetToSortedSeq(S) ==
    IF S = {} THEN <<>>
    ELSE LET m == CHOOSE x \in S : \A y \in S \ {x} : StrLess(x, y)
         IN <<m>> \o SetToSortedSeq(S \ {m})

-----------------------------------------------------------------------------
(* sqlite: the packages table *)

\* sqlite's ifnull(x, y)
IfNull(x, y) == IF x = None THEN y ELSE x

\* the row has this name (the PRIMARY KEY column)
HasRow(table, name) == \E i \in 1..Len(table) : table[i][1] = name

RECURSIVE InsertSorted(_, _)
InsertSorted(r, sorted) ==
    IF sorted = <<>> THEN <<r>>
    ELSE IF StrLess(r[1], Head(sorted)[1]) THEN <<r>> \o sorted
    ELSE <<Head(sorted)>> \o InsertSorted(r, Tail(sorted))

RECURSIVE OrderByName(_)
\* ORDER BY name
OrderByName(rows) ==
    IF rows = <<>> THEN <<>>
    ELSE InsertSorted(rows[Len(rows)], OrderByName(SubSeq(rows, 1, Len(rows) - 1)))

\* sqlite3 binds a Python bool as the integer 1 or 0
BindBool(b) == IF b THEN Val(1) ELSE Val(0)

-----------------------------------------------------------------------------
(* class Package *)

\* an argument the caller did not pass
Omitted == <<0, 0>>

\* Package(name, curated=0, tag=None, description=None, native=0)
Package(name, curated, tag, description, native) ==
    [name        |-> name,
     curated     |-> IF curated = Omitted THEN Val(0) ELSE curated,
     tag         |-> IF tag = Omitted THEN None ELSE tag,
     description |-> IF description = Omitted THEN None ELSE description,
     native      |-> IF native = Omitted THEN Val(0) ELSE native]

\* INSERT without OR IGNORE and without the PRIMARY KEY
Package_add_always(pkg, table) ==
    Append(table, <<pkg.name, pkg.curated, pkg.tag, pkg.description, pkg.native>>)

\* INSERT OR REPLACE: a second insert of a name overwrites its row
Package_add_replace(pkg, table) ==
    IF HasRow(table, pkg.name)
    THEN [i \in 1..Len(table) |->
            IF table[i][1] = pkg.name
            THEN <<pkg.name, pkg.curated, pkg.tag, pkg.description, pkg.native>>
            ELSE table[i]]
    ELSE Append(table, <<pkg.name, pkg.curated, pkg.tag, pkg.description, pkg.native>>)

\* INSERT OR IGNORE INTO packages VALUES (...)
Package_add(pkg, table) ==
    IF HasRow(table, pkg.name) THEN table
    ELSE Append(table, <<pkg.name, pkg.curated, pkg.tag, pkg.description, pkg.native>>)

\* an upsert: the UPDATE, or an INSERT when no row has the name
Package_modify_upsert(pkg, table) ==
    IF HasRow(table, pkg.name)
    THEN [i \in 1..Len(table) |->
            IF table[i][1] = pkg.name
            THEN <<table[i][1],
                   IfNull(pkg.curated, table[i][2]),
                   IfNull(pkg.tag, table[i][3]),
                   IfNull(pkg.description, table[i][4]),
                   IfNull(pkg.native, table[i][5])>>
            ELSE table[i]]
    ELSE Append(table, <<pkg.name, pkg.curated, pkg.tag, pkg.description, pkg.native>>)

\* UPDATE packages SET c = ifnull(:c, c), ... WHERE name = :name
Package_modify(pkg, table) ==
    [i \in 1..Len(table) |->
        IF table[i][1] = pkg.name
        THEN <<table[i][1],
               IfNull(pkg.curated, table[i][2]),
               IfNull(pkg.tag, table[i][3]),
               IfNull(pkg.description, table[i][4]),
               IfNull(pkg.native, table[i][5])>>
        ELSE table[i]]

\* Select * FROM packages WHERE name = :name, then o[0] or 'no_match';
\* str + None raises TypeError, which the except IndexError does not catch
Package_display(pkg, table) ==
    LET o == SelectSeq(table, LAMBDA r : r[1] = pkg.name)
    IN IF o = <<>> THEN [kind |-> "no_match"]
       ELSE IF o[1][3] = None \/ o[1][4] = None THEN [kind |-> "raised", exc |-> "TypeError"]
       ELSE [kind |-> "rows", rows |-> o]

-----------------------------------------------------------------------------
(* pacman, as the code reads it *)

\* pacman -Qei: for each package a Name line, other fields, a Description line
QeiLines(listing) ==
    Concat([i \in 1..Len(listing) |->
              <<[field |-> "Name", value |-> listing[i][1]],
                [field |-> "Version", value |-> <<>>],
                [field |-> "Description", value |-> listing[i][2]]>>])

\* the explicitly installed packages pacman may list: (name, description)
Listings == SeqsUpTo(PkgNames \X Descs, MaxListing)

\* subprocess.check_output(['pacman', '-Qei']): the output, or a nonzero exit
Qei(listing, failed) ==
    IF failed THEN [status |-> 1, lines |-> <<>>]
    ELSE [status |-> 0, lines |-> QeiLines(listing)]

\* subprocess.getstatusoutput('pacman -Qqen'): (status, names one per line)
Qqen(names) == <<0, JoinLines(SetToSortedSeq(names))>>

\* the names of a listing
ListingNames(listing) == {listing[i][1] : i \in 1..Len(listing)}

-----------------------------------------------------------------------------
(* class Database *)

\* DELETE FROM packages, the WHERE forgotten
DeleteRegular_all(table) == <<>>

\* the DELETE left out
DeleteRegular_none(table) == table

\* DELETE FROM packages WHERE curated = 0
DeleteRegular(table) == SelectSeq(table, LAMBDA r : r[2] # Val(0))

RECURSIVE CountNative(_, _, _)
\* for record in nativelist[1].split('\n'): native + 1 if record == name
CountNative(records, name, native) ==
    IF records = <<>> THEN native
    ELSE CountNative(Tail(records), name,
                     IF Head(records) = name THEN native + 1 ELSE native)

\* the refresh left out: a curated row keeps the native status it had
RefreshCurated_skip(table, name, native) == table

\* the refresh writing curated = 0, as the insert above it does
RefreshCurated_demote(table, name, native) ==
    LET o == SelectSeq(table, LAMBDA r : r[2] = Val(1) /\ r[1] = name)
        Step(t, i) == Package_modify(Package(name, Val(0), o[i][3], o[i][4], Val(native)), t)
        Loop[i \in 0..Len(o)] == IF i = 0 THEN table ELSE Step(Loop[i - 1], i)
    IN Loop[Len(o)]

\* the refresh of the curated row of this name: its own tag and description,
\* the native status just computed
RefreshCurated(table, name, native) ==
    LET o == SelectSeq(table, LAMBDA r : r[2] = Val(1) /\ r[1] = name)
        Step(t, i) == Package_modify(Package(name, Val(1), o[i][3], o[i][4], Val(native)), t)
        Loop[i \in 0..Len(o)] == IF i = 0 THEN table ELSE Step(Loop[i - 1], i)
    IN Loop[Len(o)]

RECURSIVE RepopulateLines(_, _, _, _, _)
\* for line in pkglist.split('\n'): the Name branch, the Description branch
RepopulateLines(lines, nativelist, name, native, table) ==
    IF lines = <<>> THEN table
    ELSE LET line == Head(lines) IN
         IF line.field = "Name"
         THEN RepopulateLines(Tail(lines), nativelist, line.value,
                              CountNative(Split(nativelist[2], NL), line.value, 0), table)
         ELSE IF line.field = "Description"
         THEN RepopulateLines(Tail(lines), nativelist, name, native,
                  RefreshCurated(
                      Package_add(Package(name, Val(0), Val(""), Val(line.value), Val(native)), table),
                      name, native))
         ELSE RepopulateLines(Tail(lines), nativelist, name, native, table)

\* repopulate that also purges the curated rows pacman does not list
Database_repopulate_purge(table, qei, nativelist) ==
    LET deleted == DeleteRegular(table)
        listed == {qei.lines[i].value :
                     i \in {j \in 1..Len(qei.lines) : qei.lines[j].field = "Name"}}
    IN IF qei.status # 0
       THEN [table |-> deleted, raised |-> TRUE]
       ELSE [table |-> SelectSeq(RepopulateLines(qei.lines, nativelist, None, 0, deleted),
                                 LAMBDA r : r[1] \in listed),
             raised |-> FALSE]

\* Database.repopulate: the table it leaves, and whether check_output raised
Database_repopulate(table, qei, nativelist) ==
    LET deleted == DeleteRegular(table)
    IN IF qei.status # 0
       THEN [table |-> deleted, raised |-> TRUE]
       ELSE [table |-> RepopulateLines(qei.lines, nativelist, None, 0, deleted),
             raised |-> FALSE]


\* filter files: lines end with a newline, but for the last, which may not;
\* a line holds one name or is blank
FilterLines == {n \o <<NL>> : n \in PkgNames} \cup PkgNames \cup {<<NL>>}
FilterFiles ==
    {f \in SeqsUpTo(FilterLines, MaxFilter) :
        \A i \in 1..Len(f) : i < Len(f) => f[i][Len(f[i])] = NL}

\* the names the lines of a filter file hold
FileTokens(file) ==
    {SelectSeq(file[i], LAMBDA c : c # NL) : i \in 1..Len(file)} \ {<<>>}

\* subprocess.getstatusoutput('pacman -Sgq ' + filters): the members of the
\* groups named, one per line; the status is 1 when a name is no group
Sgq(status, members) == <<status, JoinLines(SetToSortedSeq(members))>>

RECURSIVE ReadFilters(_, _)
\* for line in filter_file: filters += line; filters = filters.replace('\n', ' ')
ReadFilters(filter_file, filters) ==
    IF filter_file = <<>> THEN filters
    ELSE ReadFilters(Tail(filter_file), Replace(filters \o Head(filter_file), NL, SP))

\* the names Database.filter deletes by:
\* grp_filter[1].split('\n') + filters.split(' ')
FilterNames(filter_file, grp_filter) ==
    Split(grp_filter[2], NL) \o Split(ReadFilters(filter_file, <<>>), SP)

\* DELETE FROM packages WHERE name = :name, curated rows too
DeleteRegularNamed_any(table, name) == SelectSeq(table, LAMBDA r : r[1] # name)

\* DELETE FROM packages WHERE name = :name and curated = 0
DeleteRegularNamed(table, name) ==
    SelectSeq(table, LAMBDA r : ~(r[1] = name /\ r[2] = Val(0)))

RECURSIVE DeleteEach(_, _)
DeleteEach(names, table) ==
    IF names = <<>> THEN table
    ELSE DeleteEach(Tail(names), DeleteRegularNamed(table, Head(names)))

\* Database.__init__ after sqlite3.connect, on a file [table, columns,
\* user_version]: CREATE TABLE IF NOT EXISTS, PRAGMA user_version, and the
\* migration ALTER TABLE packages ADD COLUMN native integer, which has no
\* DEFAULT clause, so the rows there get NULL in the new column
Database_init(file) ==
    LET created == IF file.columns = 0
                   THEN [table |-> <<>>, columns |-> 5]
                   ELSE [table |-> file.table, columns |-> file.columns]
        current_db_version == 1
        user_ver == IF file.user_version = 0 THEN current_db_version
                    ELSE file.user_version
    IN IF created.columns = 4
       THEN [table |-> [i \in 1..Len(created.table) |-> Append(created.table[i], None)],
             columns |-> 5, user_version |-> user_ver]
       ELSE [table |-> created.table, columns |-> created.columns,
             user_version |-> user_ver]

\* Database.close(commit): commit writes the table to the file
Database_close(table, file, commit) == IF commit THEN table ELSE file

\* Database.__exit__: close(), whatever the exception
Database_exit(table, file) == Database_close(table, file, TRUE)

\* filter that gives up when pacman -Sgq exits nonzero
Database_filter_strict(table, filter_file, grp_filter) ==
    IF grp_filter[1] # 0 THEN table
    ELSE DeleteEach(FilterNames(filter_file, grp_filter), table)

\* filter that deletes nothing
Database_filter_none(table, filter_file, grp_filter) == table

\* Database.filter
Database_filter(table, filter_file, grp_filter) ==
    DeleteEach(FilterNames(filter_file, grp_filter), table)

\* the native restriction of Database.output: 1, 0 or None
NativeArg(args) ==
    LET native == IF args.native THEN Val(1) ELSE None
    IN IF args.foreign THEN Val(0) ELSE native

\* Database.output without ORDER BY name: the rows in rowid order
Database_output_unordered(table, args) ==
    LET native == NativeArg(args) IN
    IF native # None
    THEN SelectSeq(table, LAMBDA r : r[2] = BindBool(args.curated) /\ r[5] = native)
    ELSE SelectSeq(table, LAMBDA r : r[2] = BindBool(args.curated))

\* Database.output: the rows it returns
Database_output(table, args) ==
    LET native == NativeArg(args) IN
    IF native # None
    THEN OrderByName(SelectSeq(table,
             LAMBDA r : r[2] = BindBool(args.curated) /\ r[5] = native))
    ELSE OrderByName(SelectSeq(table, LAMBDA r : r[2] = BindBool(args.curated)))

\* subprocess.check_output(['pacman', '-Qqe']): names, each on its line, or a
\* nonzero exit
Qqe(names, failed) ==
    IF failed THEN [status |-> 1, out |-> <<>>]
    ELSE LET l == SetToSortedSeq(names)
         IN [status |-> 0, out |-> Concat([i \in 1..Len(l) |-> l[i] \o <<NL>>])]

RECURSIVE MissingLoop(_, _, _)
\* for i in range(len(o)): if o[i][0] not in pkglist.split('\n'): result += ...
MissingLoop(o, pkglist, result) ==
    IF o = <<>> THEN result
    ELSE MissingLoop(Tail(o), pkglist,
             IF Head(o)[1] \notin Range(Split(pkglist, NL))
             THEN result \o Head(o)[1] \o <<NL>>
             ELSE result)

\* Database.missing without WHERE curated = 1
Database_missing_all(table, qqe) ==
    LET o == OrderByName(table)
    IN IF qqe.status # 0 THEN [kind |-> "raised", exc |-> "CalledProcessError"]
       ELSE [kind |-> "str", str |-> MissingLoop(o, qqe.out, <<>>)]

\* Database.missing: the string it returns, or the exception of check_output
Database_missing(table, qqe) ==
    LET o == OrderByName(SelectSeq(table, LAMBDA r : r[2] = Val(1)))
    IN IF qqe.status # 0 THEN [kind |-> "raised", exc |-> "CalledProcessError"]
       ELSE [kind |-> "str", str |-> MissingLoop(o, qqe.out, <<>>)]

-----------------------------------------------------------------------------
(* The in-memory Database of the tests: any method, in any order *)

\* Database(':memory:'): CREATE TABLE IF NOT EXISTS packages
Init ==
    /\ packages = <<>>
    /\ prev = <<>>
    /\ op = "idle"
    /\ arg = None
    /\ ret = None
    /\ pc = "call"
    /\ committed = <<>>
    /\ conn = "open"
    /\ cli = None
    /\ unset = None
    /\ columns = Database_init([table |-> <<>>, columns |-> 0, user_version |-> 0]).columns
    /\ user_version =
         Database_init([table |-> <<>>, columns |-> 0, user_version |-> 0]).user_version

Schema == <<columns, user_version>>
File == <<committed, conn, cli, unset, Schema>>

\* the arguments a caller passes to Package(...)
CuratedArgs == {Val(0), Val(1)}
TagArgs == {Val(t) : t \in Tags}
DescArgs == {Val(d) : d \in Descs}
NativeArgs == {Val(0), Val(1)}

\* a call of a method: the table it leaves, its arguments, its result
Call(name, a, table, r) ==
    /\ pc = "call"
    /\ pc' = "ret"
    /\ packages' = table
    /\ prev' = packages
    /\ op' = name
    /\ arg' = a
    /\ ret' = r
    /\ UNCHANGED File

\* pkg.add(db)
Add ==
    \E name \in PkgNames, curated \in CuratedArgs, tag \in TagArgs,
       description \in DescArgs, native \in NativeArgs :
        /\ Len(packages) < MaxRows
        /\ Call("add", <<name, curated, tag, description, native>>,
                Package_add(Package(name, curated, tag, description, native), packages),
                None)

\* pkg.modify(db): curated passed, as every caller does; tag and description
\* passed or None; native passed, None or omitted
Modify ==
    \E name \in PkgNames, curated \in CuratedArgs \cup {None},
       tag \in TagArgs \cup {None}, description \in DescArgs \cup {None},
       native \in NativeArgs \cup {None, Omitted} :
        Call("modify", <<name, curated, tag, description, native>>,
             Package_modify(Package(name, curated, tag, description, native), packages),
             None)

\* pkg.display(db)
Display ==
    \E name \in PkgNames :
        Call("display", <<name>>, packages,
             Package_display(Package(name, Omitted, Omitted, Omitted, Omitted), packages))

\* db.repopulate()
Repopulate ==
    \E listing \in Listings, failed \in BOOLEAN, native \in SUBSET PkgNames :
        LET r == Database_repopulate(packages, Qei(listing, failed), Qqen(native)) IN
        /\ failed => listing = <<>>
        /\ Call("repopulate", [listing |-> listing, failed |-> failed, native |-> native],
                r.table, [kind |-> IF r.raised THEN "raised" ELSE "none"])

\* db.filter(filter_file)
Filter ==
    \E filter_file \in FilterFiles, status \in {0, 1}, members \in SUBSET PkgNames :
        Call("filter", [file |-> filter_file, status |-> status, members |-> members],
             Database_filter(packages, filter_file, Sgq(status, members)), None)

\* the parsed arguments output reads: -n and -f exclude each other
OutputArgs == {a \in [curated : BOOLEAN, native : BOOLEAN, foreign : BOOLEAN] :
                 ~(a.native /\ a.foreign)}

\* db.output(args)
Output ==
    \E args \in OutputArgs :
        Call("output", args, packages,
             [kind |-> "rows", rows |-> Database_output(packages, args)])

\* db.missing(args) that deletes the rows it reports
Missing_purge ==
    \E installed \in SUBSET PkgNames, failed \in BOOLEAN :
        /\ failed => installed = {}
        /\ Call("missing", [installed |-> installed, failed |-> failed],
                SelectSeq(packages, LAMBDA r : r[2] # Val(1) \/ r[1] \in installed),
                Database_missing(packages, Qqe(installed, failed)))

\* db.missing(args)
Missing ==
    \E installed \in SUBSET PkgNames, failed \in BOOLEAN :
        /\ failed => installed = {}
        /\ Call("missing", [installed |-> installed, failed |-> failed], packages,
                Database_missing(packages, Qqe(installed, failed)))

\* the caller takes the result and goes on to its next call
Return ==
    /\ pc = "ret"
    /\ pc' = "call"
    /\ prev' = <<>>
    /\ op' = "idle"
    /\ arg' = None
    /\ ret' = None
    /\ UNCHANGED <<packages, File>>

Next == Add \/ Modify \/ Display \/ Repopulate \/ Filter \/ Output \/ Missing \/ Return

Spec == Init /\ [][Next]_vars

-----------------------------------------------------------------------------
(* pcurate: invocations of the command, each a Control method on the file *)

\* pcurate PACKAGE_NAME [-u | -s [-t TAG] [-d DESCRIPTION]]
DisplayClis ==
    {[cmd |-> "display", name |-> n, set |-> st, unset |-> u, tag |-> t, desc |-> d] :
        n \in PkgNames, st \in BOOLEAN, u \in BOOLEAN,
        t \in {None, Val("test_tag")}, d \in {None, Val("descB")}}

\* -u and -s exclude each other, -t and -d come with -s
SetClis == {c \in DisplayClis : c.set /\ ~c.unset}
UnsetClis == {c \in DisplayClis : c.unset /\ ~c.set /\ c.tag = None /\ c.desc = None}
PlainClis == {c \in DisplayClis : ~c.unset /\ ~c.set /\ c.tag = None /\ c.desc = None}

\* pcurate ( -c | -r | -m ) [-n | -f], pcurate PACKAGE_NAME ...: what main
\* dispatches on; the other arguments are modelled where the code first reads them
Cmds == {"output", "missing", "display"}

\* no database file yet, no invocation under way
InitCtl ==
    /\ packages = <<>>
    /\ prev = <<>>
    /\ op = "idle"
    /\ arg = None
    /\ ret = None
    /\ pc = "idle"
    /\ committed = <<>>
    /\ conn = "closed"
    /\ cli = None
    /\ unset = None
    /\ columns = 0
    /\ user_version = 0

\* main() dispatches to a Control method, whose with statement evaluates
\* Database(self.db_path): sqlite3.connect, then the statements of __init__,
\* which raise sqlite3.OperationalError when another process holds the
\* file's lock (or the file is no database); the with block, and so
\* __exit__, is entered only if __init__ returns
Invoke ==
    \E cmd \in Cmds, locked \in BOOLEAN :
        LET d == Database_init([table |-> committed, columns |-> columns,
                                user_version |-> user_version]) IN
        /\ pc = "idle"
        /\ cli' = [cmd |-> cmd]
        /\ conn' = "open"
        /\ op' = "init"
        /\ arg' = None
        /\ IF locked
           THEN /\ pc' = "uncaught"
                /\ ret' = [kind |-> "raised"]
                /\ packages' = <<>>
                /\ prev' = <<>>
                /\ UNCHANGED <<committed, unset, Schema>>
           ELSE /\ pc' = IF cmd = "missing" THEN "missing" ELSE "repopulate"
                /\ ret' = None
                /\ packages' = d.table
                /\ prev' = d.table
                /\ committed' = d.table
                /\ columns' = d.columns
                /\ user_version' = d.user_version
                /\ UNCHANGED unset

\* the exception of __init__ leaves the Control method and main(): no
\* statement of the program closes the connection; the process ends
CtlUncaught ==
    /\ pc = "uncaught"
    /\ pc' = "idle"
    /\ conn' = "closed"
    /\ op' = "idle"
    /\ ret' = None
    /\ cli' = None
    /\ unset' = None
    /\ UNCHANGED <<packages, prev, arg, committed, Schema>>

\* db.repopulate() of Control.display and of Control.filter; an exception
\* leaves the with block
CtlRepopulate ==
    \E listing \in Listings, failed \in BOOLEAN, native \in SUBSET PkgNames :
        LET r == Database_repopulate(packages, Qei(listing, failed), Qqen(native)) IN
        /\ pc = "repopulate"
        /\ failed => listing = <<>> /\ native = {}
        /\ packages' = r.table
        /\ prev' = packages
        /\ op' = "repopulate"
        /\ arg' = [installed |-> ListingNames(listing), failed |-> failed]
        /\ ret' = [kind |-> IF r.raised THEN "raised" ELSE "none"]
        /\ pc' = IF r.raised THEN "exit"
                 ELSE IF cli.cmd = "output" THEN "filter"
                 ELSE "display"
        /\ UNCHANGED File

\* Control.filter after repopulate: db.filter(filter_file) if the file exists
CtlFilter ==
    \E isfile \in BOOLEAN, filter_file \in FilterFiles, members \in SUBSET PkgNames :
        /\ pc = "filter"
        /\ ~isfile => filter_file = <<>> /\ members = {}
        /\ packages' = IF isfile
                       THEN Database_filter(packages, filter_file,
                                Sgq(IF members = {} THEN 1 ELSE 0, members))
                       ELSE packages
        /\ prev' = packages
        /\ op' = "filter"
        /\ arg' = [installed |-> arg.installed,
                   matched |-> FileTokens(filter_file) \cup members]
        /\ pc' = "output"
        /\ UNCHANGED <<ret, File>>

\* db.output(args) of Control.output
CtlOutput ==
    \E args \in OutputArgs :
        /\ pc = "output"
        /\ ret' = [kind |-> "rows", rows |-> Database_output(packages, args)]
        /\ cli' = [cmd |-> "output", curated |-> args.curated, native |-> args.native,
                   foreign |-> args.foreign]
        /\ prev' = packages
        /\ op' = "output"
        /\ pc' = "exit"
        /\ UNCHANGED <<packages, arg, committed, conn, unset, Schema>>

\* db.missing(args) of Control.missing
CtlMissing ==
    \E installed \in SUBSET PkgNames, failed \in BOOLEAN :
        /\ pc = "missing"
        /\ failed => installed = {}
        /\ ret' = Database_missing(packages, Qqe(installed, failed))
        /\ arg' = [installed |-> installed, failed |-> failed]
        /\ prev' = packages
        /\ op' = "missing"
        /\ pc' = "exit"
        /\ UNCHANGED <<packages, File>>

\* pkg = Package(args['PACKAGE_NAME'], args['--set'], args['--tag'], args['--desc'])
CliPackage(c) == Package(c.name, BindBool(c.set), c.tag, c.desc, Omitted)

\* --set or --unset: pkg.modify(db); db.conn.commit()
CtlModify ==
    \E c \in SetClis \cup UnsetClis :
        /\ pc = "display"
        /\ cli' = c
        /\ packages' = Package_modify(CliPackage(c), packages)
        /\ committed' = packages'
        /\ prev' = packages
        /\ op' = "modify"
        /\ pc' = "exit"
        /\ UNCHANGED <<arg, ret, conn, unset, Schema>>

\* neither: pkg.display(db)
CtlDisplay ==
    \E c \in PlainClis :
        /\ pc = "display"
        /\ cli' = c
        /\ ret' = Package_display(CliPackage(c), packages)
        /\ prev' = packages
        /\ op' = "display"
        /\ pc' = "exit"
        /\ UNCHANGED <<packages, arg, committed, conn, unset, Schema>>

\* the end of the with block, reached normally or by an exception:
\* Database.__exit__, and the process ends
CtlExit ==
    /\ pc = "exit"
    /\ committed' = Database_exit(packages, committed)
    /\ conn' = "closed"
    /\ unset' = IF op = "modify" /\ cli.unset
                   /\ \E r \in Range(prev) : r[1] = cli.name /\ r[2] = Val(1)
                THEN Val(cli.name) ELSE None
    /\ packages' = <<>>
    /\ prev' = <<>>
    /\ op' = "idle"
    /\ arg' = None
    /\ ret' = None
    /\ cli' = None
    /\ pc' = "idle"
    /\ UNCHANGED Schema

NextCtl ==
    \/ Invoke \/ CtlUncaught \/ CtlRepopulate \/ CtlFilter \/ CtlOutput
    \/ CtlMissing \/ CtlModify \/ CtlDisplay \/ CtlExit

SpecCtl == InitCtl /\ [][NextCtl]_vars

-----------------------------------------------------------------------------
(* Database(db_path) on the file an earlier run, or an earlier version, left *)

\* the rows of a four-column (alpha) packages table
AlphaRows ==
    {<<n, c, Val(t), Val(d)>> : n \in PkgNames, c \in {Val(0), Val(1)},
                                t \in Tags, d \in Descs}

\* tables of at most MaxStored rows, no name twice (name is the primary key)
StoredTables(rows) ==
    {t \in SeqsUpTo(rows, MaxStored) :
        \A i, j \in 1..Len(t) : t[i][1] = t[j][1] => i = j}

\* no file, a four-column table, or a five-column one
StoredFiles ==
    {[table |-> <<>>, columns |-> 0, user_version |-> 0]}
    \cup {[table |-> t, columns |-> 4, user_version |-> v] :
            t \in StoredTables(AlphaRows), v \in 0..MaxVersion}
    \cup {[table |-> t, columns |-> 5, user_version |-> v] :
            t \in StoredTables({Append(r, n) : r \in AlphaRows, n \in {Val(0), Val(1)}}),
            v \in 0..MaxVersion}

InitFile ==
    /\ packages = <<>>
    /\ prev = <<>>
    /\ op = "idle"
    /\ arg = None
    /\ ret = None
    /\ pc = "idle"
    /\ conn = "closed"
    /\ cli = None
    /\ unset = None
    /\ \E f \in StoredFiles :
        /\ committed = f.table
        /\ columns = f.columns
        /\ user_version = f.user_version

\* db = Database(db_path)
Open ==
    LET d == Database_init([table |-> committed, columns |-> columns,
                            user_version |-> user_version]) IN
    /\ pc = "idle"
    /\ pc' = "open"
    /\ conn' = "open"
    /\ packages' = d.table
    /\ committed' = d.table
    /\ columns' = d.columns
    /\ user_version' = d.user_version
    /\ prev' = committed
    /\ op' = "init"
    /\ arg' = [columns |-> columns, user_version |-> user_version]
    /\ ret' = None
    /\ UNCHANGED <<cli, unset>>

\* db.close()
Close ==
    /\ pc = "open"
    /\ pc' = "idle"
    /\ conn' = "closed"
    /\ committed' = Database_close(packages, committed, TRUE)
    /\ packages' = <<>>
    /\ prev' = <<>>
    /\ op' = "idle"
    /\ arg' = None
    /\ UNCHANGED <<ret, cli, unset, Schema>>

NextFile == Open \/ Close

SpecFile == InitFile /\ [][NextFile]_vars

-----------------------------------------------------------------------------
(* Properties *)

CuratedRows(table) == {r \in Range(table) : r[2] = Val(1)}
RegularRows(table) == {r \in Range(table) : r[2] = Val(0)}
Names(rows) == {r[1] : r \in rows}

\* a sequence of names in strictly ascending order
Ascending(names) ==
    \A i, j \in 1..Len(names) : i < j => StrLess(names[i], names[j])

\* C1: every row curated before repopulate, whatever pacman lists and also
\* when its listing fails, is there after it with the same name, curated = 1
\* and the same tag and description; only its native may differ.
C1_CuratedSurvival ==
    op = "repopulate" =>
        \A r \in CuratedRows(prev) :
            \E q \in Range(packages) :
                /\ q[1] = r[1] /\ q[2] = Val(1) /\ q[3] = r[3] /\ q[4] = r[4]

\* a curated row with a tag, listed with another description, whose native
\* status repopulate changed
C1_Witness ==
    /\ op = "repopulate"
    /\ \E r \in CuratedRows(prev), q \in Range(packages), i \in 1..Len(arg.listing) :
        /\ q[1] = r[1] /\ q[5] # r[5] /\ r[3] # Val("")
        /\ arg.listing[i][1] = r[1] /\ Val(arg.listing[i][2]) # r[4]

\* C3: modify changes only the fields supplied: a field passed as None or not
\* passed to Package(...) keeps its stored value, and no other row changes.
C3_PatchMergeLaw ==
    op = "modify" =>
        /\ Len(packages) = Len(prev)
        /\ \A i \in 1..Len(prev) :
            IF prev[i][1] = arg[1]
            THEN \A k \in 2..5 : arg[k] \in {None, Omitted} => packages[i][k] = prev[i][k]
            ELSE packages[i] = prev[i]

\* C2: when pacman -Qei fails in repopulate, the end of the with block leaves
\* in the file the rows it held before the invocation.
C2_FailureAtomicity ==
    [][(pc = "exit" /\ op = "repopulate" /\ ret.kind = "raised")
        => committed' = committed]_vars

\* C4: filter removes no curated row; leaves no non-curated row named by a
\* token of the file or by the group expansion; and leaves every other
\* non-curated row as it was.
C4_FilterMonotonicity ==
    op = "filter" =>
        LET matched == FileTokens(arg.file) \cup arg.members IN
        /\ CuratedRows(packages) = CuratedRows(prev)
        /\ RegularRows(packages) = {r \in RegularRows(prev) : r[1] \notin matched}

\* a curated row named by a token stays, a non-curated row named only by the
\* group expansion goes
C4_Witness ==
    /\ op = "filter"
    /\ \E r \in CuratedRows(packages) : r[1] \in FileTokens(arg.file)
    /\ \E r \in RegularRows(prev) :
        /\ r[1] \in arg.members \ FileTokens(arg.file)
        /\ ~HasRow(packages, r[1])

\* C5: a second repopulate against the same listings leaves the non-curated
\* rows and the curated rows that the first one left.
C5_IdempotentRepopulation ==
    (op = "repopulate" /\ ret.kind = "none") =>
        LET again == Database_repopulate(packages, Qei(arg.listing, arg.failed),
                                         Qqen(arg.native)).table
        IN /\ RegularRows(again) = RegularRows(packages)
           /\ CuratedRows(again) = CuratedRows(packages)

\* a repopulate that changed the table and left rows of both kinds
C5_Witness ==
    /\ op = "repopulate" /\ ret.kind = "none"
    /\ packages # prev
    /\ CuratedRows(packages) # {} /\ RegularRows(packages) # {}
    /\ Names(CuratedRows(packages)) \subseteq ListingNames(arg.listing)

\* the names of the string missing returns, one per line
MissingNames(str) == LET l == Split(str, NL) IN SubSeq(l, 1, Len(l) - 1)

\* C6: missing returns the names of the curated rows that pacman -Qqe does
\* not list, each once, in ascending order, and no other name.
C6_MissingView ==
    (op = "missing" /\ ret.kind = "str") =>
        /\ Range(MissingNames(ret.str)) = Names(CuratedRows(packages)) \ arg.installed
        /\ Ascending(MissingNames(ret.str))

\* two curated rows missing, inserted in descending order
C6_Witness ==
    /\ op = "missing" /\ ret.kind = "str"
    /\ Len(MissingNames(ret.str)) = 2
    /\ Len(packages) = 2 /\ StrLess(packages[2][1], packages[1][1])

\* C7: after repopulate every row whose name pacman -Qei lists, curated or
\* not, has native = 1 if pacman -Qqen lists the name and 0 if not; the
\* listing [ab, b] with native {ab} gives an empty table two rows.
C7_NativeClassification ==
    (op = "repopulate" /\ ret.kind = "none") =>
        /\ \A r \in Range(packages) :
            r[1] \in ListingNames(arg.listing) =>
                r[5] = Val(IF r[1] \in arg.native THEN 1 ELSE 0)
        /\ (/\ prev = <<>>
            /\ arg.listing = << << <<97, 98>>, "descA" >>, << <<98>>, "descB" >> >>
            /\ arg.native = {<<97, 98>>})
           => packages = << << <<97, 98>>, Val(0), Val(""), Val("descA"), Val(1) >>,
                            << <<98>>, Val(0), Val(""), Val("descB"), Val(0) >> >>

\* a curated row turned native and a curated row turned foreign
C7_Witness ==
    /\ op = "repopulate" /\ ret.kind = "none"
    /\ \E r \in CuratedRows(prev), q \in CuratedRows(packages) :
        r[1] = q[1] /\ r[5] = Val(0) /\ q[5] = Val(1)
    /\ \E r \in CuratedRows(prev), q \in CuratedRows(packages) :
        r[1] = q[1] /\ r[5] = Val(1) /\ q[5] = Val(0)

\* C8: add of a name the table holds leaves the table as it was, add of a
\* name it does not hold appends that one row, and no two rows ever share a
\* name.
C8_InsertIfAbsent ==
    /\ op = "add" =>
        IF HasRow(prev, arg[1]) THEN packages = prev
        ELSE packages = Append(prev, <<arg[1], arg[2], arg[3], arg[4], arg[5]>>)
    /\ \A i, j \in 1..Len(packages) : packages[i][1] = packages[j][1] => i = j

\* add of a name whose row, a curated one, holds other values
C8_Witness ==
    /\ op = "add"
    /\ \E r \in CuratedRows(prev) :
        r[1] = arg[1] /\ r # <<arg[1], arg[2], arg[3], arg[4], arg[5]>>
    /\ Len(packages) = 2

\* C9: pcurate NAME -u leaves the row of NAME in the table, with curated = 0;
\* after the repopulate of the next invocation the row is there if and only
\* if pacman -Qei lists NAME; and pcurate NAME, for a NAME not listed, then
\* gets 'no_match'.
C9_UnsetLifecycle ==
    /\ (op = "modify" /\ cli.unset) =>
        /\ Len(packages) = Len(prev)
        /\ \A i \in 1..Len(prev) :
            prev[i][1] = cli.name => packages[i][1] = cli.name /\ packages[i][2] = Val(0)
    /\ (unset # None /\ op = "repopulate" /\ ret.kind = "none") =>
        (HasRow(packages, unset[1]) <=> unset[1] \in arg.installed)
    /\ (unset # None /\ op = "display" /\ cli.name = unset[1]
            /\ cli.name \notin arg.installed) =>
        ret.kind = "no_match"

\* a curated row was unset, its package is not installed, and the display of
\* the next invocation finds no row
C9_Witness ==
    /\ unset # None /\ op = "display" /\ cli.name = unset[1]
    /\ cli.name \notin arg.installed
    /\ ret.kind = "no_match"
    /\ packages # <<>>

\* the rows output is asked for
Requested(table, args) ==
    {r \in Range(table) :
        /\ r[2] = Val(IF args.curated THEN 1 ELSE 0)
        /\ args.native => r[5] = Val(1)
        /\ args.foreign => r[5] = Val(0)}

\* C10: output returns the rows whose curated is the one asked for, native
\* ones only with --native, foreign ones only with --foreign, each once, in
\* ascending order of name.
C10_ListView ==
    op = "output" =>
        /\ Range(ret.rows) = Requested(packages, arg)
        /\ Ascending([i \in 1..Len(ret.rows) |-> ret.rows[i][1]])

\* --native: two native rows returned that the table holds in descending order
C10_Witness ==
    /\ op = "output" /\ arg.native
    /\ Len(ret.rows) = 2
    /\ StrLess(packages[2][1], packages[1][1])

\* C11: modify of a name that has no row leaves the table as it was, and
\* display of a name that has no row returns 'no_match', raises nothing and
\* leaves the table as it was.
C11_MissingKey ==
    /\ (op = "modify" /\ ~HasRow(prev, arg[1])) => packages = prev
    /\ (op = "display" /\ ~HasRow(prev, arg[1])) =>
        ret.kind = "no_match" /\ packages = prev

\* a set (curated = 1, with a tag) of a name that has no row, in a table
\* that has another
C11_Witness ==
    /\ op = "modify" /\ ~HasRow(prev, arg[1])
    /\ arg[2] = Val(1) /\ arg[3] = Val("test_tag")
    /\ prev # <<>>

\* C12: opening a file whose packages table has four columns keeps every
\* row's name, curated, tag and description and gives each row a native of 0
\* or 1; a user_version of 0 becomes 1 and any other stays.
C12_Migration ==
    (pc = "open" /\ op = "init") =>
        /\ user_version = IF arg.user_version = 0 THEN 1 ELSE arg.user_version
        /\ arg.columns = 4 =>
            /\ columns = 5
            /\ Len(packages) = Len(prev)
            /\ \A i \in 1..Len(prev) :
                /\ SubSeq(packages[i], 1, 4) = prev[i]
                /\ packages[i][5] \in {Val(0), Val(1)}

\* C13: when a Control method has been left, by its return or by an
\* exception, the connection it opened is closed.
C13_ScopedLifecycle ==
    pc \in {"idle", "uncaught"} => conn = "closed"

\* C14 as claimed: when pacman -Sgq exits nonzero, filter removes the
\* non-curated rows named by a token of the file and no other row.
C14_ExpansionFailure ==
    (op = "filter" /\ arg.status # 0) =>
        /\ CuratedRows(packages) = CuratedRows(prev)
        /\ RegularRows(packages) =
             {r \in RegularRows(prev) : r[1] \notin FileTokens(arg.file)}

\* C14 amended: when pacman -Sgq exits nonzero, filter still removes the
\* non-curated rows named by a token of the file, and besides them only the
\* non-curated rows named in what pacman printed before it failed; when it
\* printed nothing, only the rows the tokens name.
C14_ExpansionFailureAmended ==
    (op = "filter" /\ arg.status # 0) =>
        /\ CuratedRows(packages) = CuratedRows(prev)
        /\ \A r \in RegularRows(prev) :
            r[1] \in FileTokens(arg.file) => ~HasRow(packages, r[1])
        /\ \A r \in RegularRows(prev) :
            r \notin Range(packages) => r[1] \in FileTokens(arg.file) \cup arg.members
        /\ Range(packages) \subseteq Range(prev)
        /\ arg.members = {} =>
            RegularRows(packages) =
              {r \in RegularRows(prev) : r[1] \notin FileTokens(arg.file)}

\* pacman -Sgq exits nonzero and prints nothing: the row a token names goes,
\* the other non-curated row stays
C14_Witness ==
    /\ op = "filter" /\ arg.status # 0 /\ arg.members = {}
    /\ \E r \in RegularRows(prev) : r[1] \in FileTokens(arg.file) /\ ~HasRow(packages, r[1])
    /\ RegularRows(packages) # {}

\* C15: a curated row whose name pacman -Qei does not list is, all five
\* columns, the same after repopulate, and any curated row is the same after
\* filter.
C15_CuratedUninstalled ==
    /\ op = "repopulate" =>
        \A i \in 1..Len(prev) :
            (prev[i][2] = Val(1) /\ prev[i][1] \notin ListingNames(arg.listing)) =>
                prev[i] \in Range(packages)
    /\ op = "filter" =>
        \A i \in 1..Len(prev) : prev[i][2] = Val(1) => prev[i] \in Range(packages)

\* a repopulate that lists one package and leaves the curated row of another,
\* not listed, as it was
C15_Witness ==
    /\ op = "repopulate" /\ ret.kind = "none"
    /\ arg.listing # <<>>
    /\ \E r \in CuratedRows(prev) :
        r[1] \notin ListingNames(arg.listing) /\ r \in Range(packages)
    /\ packages # prev

RECURSIVE FirstOccurrences(_, _)
\* the listing without the later entries of a name already listed
FirstOccurrences(listing, seen) ==
    IF listing = <<>> THEN <<>>
    ELSE IF Head(listing)[1] \in seen THEN FirstOccurrences(Tail(listing), seen)
    ELSE <<Head(listing)>> \o FirstOccurrences(Tail(listing), seen \cup {Head(listing)[1]})

\* C16: repopulate from a listing that names a package more than once leaves
\* the table that repopulate from the listing without the later entries of
\* that name leaves.
C16_DuplicateNames ==
    (op = "repopulate" /\ ret.kind = "none") =>
        packages = Database_repopulate(prev, Qei(FirstOccurrences(arg.listing, {}), FALSE),
                                       Qqen(arg.native)).table

\* a package listed twice, with two descriptions, that had no curated row
C16_Witness ==
    /\ op = "repopulate" /\ ret.kind = "none"
    /\ Len(arg.listing) = 2
    /\ arg.listing[1][1] = arg.listing[2][1] /\ arg.listing[1][2] # arg.listing[2][2]
    /\ arg.listing[1][1] \in Names(RegularRows(packages))

\* C17: output, missing and display leave the table as it was.
C17_PureReads ==
    op \in {"output", "missing", "display"} => packages = prev

\* missing reports a curated row that is not installed, and the row is still
\* there
C17_Witness ==
    /\ op = "missing" /\ ret.kind = "str"
    /\ ret.str # <<>>
    /\ packages # <<>>

\* the description of the first entry of a name in a listing
FirstDescription(listing, name) ==
    listing[CHOOSE i \in 1..Len(listing) :
               listing[i][1] = name /\ \A j \in 1..(i - 1) : listing[j][1] # name][2]

\* C18: after a repopulate that did not fail, the non-curated rows are those
\* of the listed names that have no curated row, each with tag '' and the
\* description the listing gives.
C18_RegularRebuild ==
    (op = "repopulate" /\ ret.kind = "none") =>
        /\ Names(RegularRows(packages)) =
             ListingNames(arg.listing) \ Names(CuratedRows(prev))
        /\ \A r \in RegularRows(packages) :
            r[3] = Val("") /\ r[4] = Val(FirstDescription(arg.listing, r[1]))

\* a non-curated row with a tag, not listed, is gone; another, listed with
\* another description, is rebuilt
C18_Witness ==
    /\ op = "repopulate" /\ ret.kind = "none"
    /\ \E r \in RegularRows(prev) :
        r[3] # Val("") /\ r[1] \notin ListingNames(arg.listing)
    /\ \E r \in RegularRows(prev), q \in RegularRows(packages) :
        r[1] = q[1] /\ r[4] # q[4]

\* C19: in Control.output the filter step comes only after a repopulate that
\* did not fail and the query only after the filter step; a regular listing
\* holds no name that a token of the filter file or the group expansion
\* names and no name pacman -Qei did not list; the filter step leaves the
\* curated rows, which a curated listing returns, as they were.
C19_PipelineOrder ==
    /\ pc = "filter" => op = "repopulate" /\ ret.kind = "none"
    /\ pc = "output" => op = "filter"
    /\ (pc = "output" /\ op = "filter") => CuratedRows(packages) = CuratedRows(prev)
    /\ (pc = "exit" /\ op = "output") =>
        /\ ~cli.curated =>
            \A i \in 1..Len(ret.rows) :
                /\ ret.rows[i][1] \notin arg.matched
                /\ ret.rows[i][1] \in arg.installed
        /\ cli.curated => Range(ret.rows) = Requested(packages, cli)

\* a regular listing of one row, while another installed package is named by
\* the filter file or the group expansion
C19_Witness ==
    /\ pc = "exit" /\ op = "output" /\ ~cli.curated
    /\ ret.rows # <<>>
    /\ \E n \in arg.installed \cap arg.matched : ~HasRow(packages, n)

====
